---- MODULE Spec2Model ----
(***************************************************************************)
(* Model of the DAP-Ghidra sync server (ghidra_start_goto_server.py and    *)
(* ghidra_stop_goto_server.py).                                            *)
(*                                                                         *)
(* Part 1, the lifecycle: the registry slot sys.modules[MODULE_NAME], the  *)
(* VirtualModule handles, their background threads, each thread's asyncio  *)
(* event loop (its ready queue is run in batches, as BaseEventLoop does),  *)
(* the listener sockets on the configured port and the connections.        *)
(*                                                                         *)
(* Timing assumption: a thread that can take a step takes it within the    *)
(* 5 seconds of thread.join(timeout=5); the join times out only on a       *)
(* thread whose loop is blocked waiting for an event from outside.         *)
(***************************************************************************)
EXTENDS Integers, Sequences, FiniteSets, TLC

MaxHandles == 2
MaxThreads == 2
MaxConns == 1

None == 0
Handles == 1..MaxHandles
Threads == 1..MaxThreads
Conns == 1..MaxConns

VARIABLES
  registry,      \* sys.modules[MODULE_NAME]: a handle, or None when absent
  nHandles,      \* VirtualModule objects constructed so far
  nThreads,      \* threading.Thread objects started so far
  hthread,       \* VirtualModule.thread: a thread or None
  hloop,         \* VirtualModule.loop: the loop of a thread, or None
  hevent,        \* VirtualModule.stop_event: the event made by a thread, or None
  srvRunning,    \* DAPGhidraServer.running
  srvServer,     \* DAPGhidraServer.server: the listener made by a thread, or None
  tOwner,        \* the handle whose run_event_loop the thread runs
  tpc,           \* the thread's position in run_event_loop
  loopSt,        \* the thread's loop: "none", "new", "running", "stopped", "closed"
  stopping,      \* the loop's _stopping flag (loop.stop() was called)
  ready,         \* the loop's _ready queue of callbacks
  batch,         \* callbacks left in the running iteration (ntodo)
  evSet,         \* the asyncio.Event made by the thread is set
  evWaiting,     \* wait_for_stop of the thread is suspended in stop_event.wait()
  closeWaiting,  \* the listener whose wait_closed() suspends the thread's wait_for_stop
  listener,      \* the listening socket made by the thread's start task
  startSt,       \* the thread's server.start() task
  extBound,      \* another process holds the configured port
  waitsForConns, \* Server.wait_closed() waits for open connections (asyncio >= 3.12)
  conn,          \* client connections to the configured port
  m,             \* the script thread: what it runs and where it is
  mres,          \* outcome of the script thread's last completed call
  hist           \* observations of the run, read by the properties only

lvars == <<registry, nHandles, nThreads, hthread, hloop, hevent, srvRunning,
           srvServer, tOwner, tpc, loopSt, stopping, ready, batch, evSet,
           evWaiting, closeWaiting, listener, startSt, extBound, waitsForConns, conn,
           m, mres, hist>>

(***************************************************************************)
(* Part 2, the request handler: DAPGhidraServer.handle_client and          *)
(* goto_address.  A byte is a symbol: a character, or a token that stands  *)
(* for a run of bytes the handler never looks inside (a header name, the   *)
(* protocol version, a JSON token); "BAD" is a byte that is not UTF-8.     *)
(* Each symbol counts as one byte of Content-Length.                       *)
(***************************************************************************)

MaxHeaders == 2
MaxClients == 2

Clients == 1..MaxClients

VARIABLES
  hreq,     \* the request each client sends: method, path, header lines, body
  sent,     \* bytes of the request that have reached the StreamReader
  buf,      \* the StreamReader's buffer: bytes received and not yet read
  eofd,     \* the client has sent everything and shut its side (feed_eof)
  hpc,      \* the handler's position: "none", "reqline", "headers", "body", "done"
  rline,    \* request_line, decoded and stripped
  hdrs,     \* headers: a set of <<key, value>> pairs, one per key
  clen,     \* content_length
  bodyRead, \* body: the bytes reader.read(content_length) returned
  resp,     \* the responses written to the connection
  closed,   \* writer.close() was called
  herr,     \* the exception logged by the handler: "none", "request", "handler"
  navq,     \* SwingUtilities.invokeLater: the posted navigations, by address value
  navdone   \* what the UI thread made of the navigations it ran

hvars == <<hreq, sent, buf, eofd, hpc, rline, hdrs, clen, bodyRead, resp, closed,
           herr, navq, navdone>>

(***************************************************************************)
(* Part 3, goto_address called on its own.                                 *)
(***************************************************************************)

MaxAddrLen == 3

VARIABLES
  arg,      \* address_str, the argument of the call
  ret       \* what the call did: posted a navigation, logged, or raised

avars == <<arg, ret>>

vars == <<lvars, hvars, avars>>

Item(k, a) == [k |-> k, a |-> a]

IsAlive(t) == tpc[t] \notin {"unborn", "dead"}

PortFree == ~extBound /\ \A t \in Threads : listener[t] # "bound"

\* Connections a Server object still counts as active (Server._active_count).
ActiveConns(l) == {c \in Conns : conn[c].lsn = l /\ conn[c].st \in {"open", "dataready", "scheduled"}}

\* A free connection slot: no connection, or one that was reset or was served
\* and closed.
NoConn == [st |-> "none", lsn |-> None]

IdleMain == [pc |-> "idle", op |-> "none", h |-> None, t |-> None]

\* stoppedFirst: handles whose stop_server() returned to the start script before
\* it replaced them; clean: threads stop_server() reported as stopped;
\* restarts: threads started on a handle right after a stop_server() on it;
\* twice: handles whose start_server() was called again right after the start
\* script had started them, and not stopped since; inflight: connections that
\* were accepted and not yet served when stop_server() signalled their thread;
\* raised: the exceptions that ended wait_for_stop or the finally block of
\* run_event_loop, as <<thread, where, exception>>.
HistInit == [stoppedFirst |-> {}, clean |-> {}, restarts |-> {}, twice |-> {},
             inflight |-> {}, raised |-> {}]

InitLifecycle ==
  /\ registry = None
  /\ nHandles = 0
  /\ nThreads = 0
  /\ hthread = [h \in Handles |-> None]
  /\ hloop = [h \in Handles |-> None]
  /\ hevent = [h \in Handles |-> None]
  /\ srvRunning = [h \in Handles |-> FALSE]
  /\ srvServer = [h \in Handles |-> None]
  /\ tOwner = [t \in Threads |-> None]
  /\ tpc = [t \in Threads |-> "unborn"]
  /\ loopSt = [t \in Threads |-> "none"]
  /\ stopping = [t \in Threads |-> FALSE]
  /\ ready = [t \in Threads |-> <<>>]
  /\ batch = [t \in Threads |-> 0]
  /\ evSet = [t \in Threads |-> FALSE]
  /\ evWaiting = [t \in Threads |-> FALSE]
  /\ closeWaiting = [t \in Threads |-> None]
  /\ listener = [t \in Threads |-> "none"]
  /\ startSt = [t \in Threads |-> "none"]
  /\ extBound \in BOOLEAN
  /\ waitsForConns \in BOOLEAN
  /\ conn = [c \in Conns |-> NoConn]
  /\ m = IdleMain
  /\ mres = [op |-> "none", out |-> "none"]
  /\ hist = HistInit

(***************************************************************************)
(* The script thread: the start script, the stop script, and a direct      *)
(* start_server() call on the registered handle.                           *)
(***************************************************************************)

\* The call the script thread completes.
Done(op, out) == [op |-> op, out |-> out]

\* start_server, line 237: the handle has a thread and it is alive.
AlreadyRunning_Never(h) == FALSE

AlreadyRunning(h) == hthread[h] # None /\ IsAlive(hthread[h])

\* stop_server, line 247: no thread, or the thread has exited.
ServerNotRunning_Never(h) == FALSE

ServerNotRunning(h) == hthread[h] = None \/ ~IsAlive(hthread[h])

\* stop_server, line 252: self.loop.call_soon_threadsafe(self.stop_event.set).
\* "raise": self.loop or self.stop_event is None (AttributeError), or the loop
\* is closed (RuntimeError).
StopOutcome(h) ==
  IF ServerNotRunning(h) THEN "warn"
  ELSE IF hloop[h] = None \/ hevent[h] = None THEN "raise"
  ELSE IF loopSt[hloop[h]] = "closed" THEN "raise"
  ELSE "signal"

\* stop_server, lines 251-253: queue stop_event.set on the loop, then join.
Signal(h, op) ==
  /\ ready' = [ready EXCEPT ![hloop[h]] = Append(@, Item("evset", hevent[h]))]
  /\ m' = [pc |-> "join", op |-> op, h |-> h, t |-> hthread[h]]
  /\ hist' = [hist EXCEPT !.twice = @ \ {h},
                          !.inflight = @ \cup ActiveConns(hthread[h])]
  /\ UNCHANGED <<registry, nHandles, nThreads, hthread, hloop, hevent, srvRunning,
                 srvServer, tOwner, tpc, loopSt, stopping, batch, evSet, evWaiting,
                 closeWaiting, listener, startSt, extBound, waitsForConns, conn,
                 mres>>

\* start script, lines 33-37: a registered handle is stopped first.
MustStopPrevious_Never == FALSE

MustStopPrevious == registry # None

\* Start script, lines 32-38, up to the return of old_module.stop_server().
StartScript ==
  /\ m.pc = "idle"
  /\ nHandles < MaxHandles /\ nThreads < MaxThreads
  /\ IF ~MustStopPrevious
     THEN /\ m' = [pc |-> "replace", op |-> "start", h |-> None, t |-> None]
          /\ UNCHANGED <<registry, nHandles, nThreads, hthread, hloop, hevent,
                         srvRunning, srvServer, tOwner, tpc, loopSt, stopping,
                         ready, batch, evSet, evWaiting, closeWaiting, listener,
                         startSt, extBound, waitsForConns, conn, mres, hist>>
     ELSE CASE StopOutcome(registry) = "warn" ->
                 /\ m' = [pc |-> "replace", op |-> "start", h |-> registry, t |-> None]
                 /\ hist' = [hist EXCEPT !.stoppedFirst = @ \cup {registry}]
                 /\ UNCHANGED <<registry, nHandles, nThreads, hthread, hloop, hevent,
                                srvRunning, srvServer, tOwner, tpc, loopSt, stopping,
                                ready, batch, evSet, evWaiting, closeWaiting, listener,
                                startSt, extBound, waitsForConns, conn, mres>>
            [] StopOutcome(registry) = "raise" ->
                 /\ mres' = Done("start", "raised")
                 /\ UNCHANGED <<registry, nHandles, nThreads, hthread, hloop, hevent,
                                srvRunning, srvServer, tOwner, tpc, loopSt, stopping,
                                ready, batch, evSet, evWaiting, closeWaiting, listener,
                                startSt, extBound, waitsForConns, conn, m, hist>>
            [] StopOutcome(registry) = "signal" -> Signal(registry, "start")

\* stop_server, line 253: join returns because the thread has exited.
JoinDone_NoWait(t) == TRUE

JoinDone(t) == ~IsAlive(t)

\* A thread that cannot step until something outside it happens.
Blocked(t) ==
  /\ tpc[t] = "run"
  /\ ready[t] = <<>> /\ ~stopping[t]
  /\ \A c \in Conns : conn[c].lsn = t =>
        /\ conn[c].st # "dataready"
        /\ conn[c].st = "backlog" => listener[t] # "bound"

\* stop_server, lines 253-261, after the join: the thread ended (JoinDone) or
\* the 5 seconds passed on a blocked thread; the references are cleared.
JoinEnds ==
  /\ m.pc = "join"
  /\ JoinDone(m.t) \/ Blocked(m.t)
  /\ hthread' = [hthread EXCEPT ![m.h] = None]
  /\ hloop' = [hloop EXCEPT ![m.h] = None]
  /\ IF m.op = "start"
     THEN /\ m' = [m EXCEPT !.pc = "replace"]
          /\ mres' = mres
          /\ hist' = [hist EXCEPT !.stoppedFirst = @ \cup {m.h},
                                  !.clean = IF JoinDone(m.t) THEN @ \cup {m.t} ELSE @]
     ELSE /\ m' = IdleMain
          /\ mres' = Done("stop", IF JoinDone(m.t) THEN "stopped" ELSE "timeout")
          /\ hist' = [hist EXCEPT !.clean = IF JoinDone(m.t) THEN @ \cup {m.t} ELSE @]
  /\ UNCHANGED <<registry, nHandles, nThreads, hevent, srvRunning, srvServer, tOwner,
                 tpc, loopSt, stopping, ready, batch, evSet, evWaiting, closeWaiting,
                 listener, startSt, extBound, waitsForConns, conn>>

\* start_server, lines 241-242, on handle h: a new thread is started.
NewThread(h) ==
  LET t == nThreads + 1 IN
  /\ nThreads' = t
  /\ hthread' = [hthread EXCEPT ![h] = t]
  /\ tOwner' = [tOwner EXCEPT ![t] = h]
  /\ tpc' = [tpc EXCEPT ![t] = "L217"]

\* Start script, lines 38 and 263-269: the slot is replaced by a new handle
\* and the new handle is started.
Replace ==
  /\ m.pc = "replace"
  /\ LET h == nHandles + 1 IN
     /\ nHandles' = h
     /\ registry' = h
     /\ NewThread(h)
  /\ m' = IdleMain
  /\ mres' = Done("start", "ok")
  /\ UNCHANGED <<hloop, hevent, srvRunning, srvServer, loopSt, stopping, ready, batch,
                 evSet, evWaiting, closeWaiting, listener, startSt, extBound,
                 waitsForConns, conn, hist>>

\* Stop script, lines 22-25.
StopScript ==
  /\ m.pc = "idle"
  /\ IF registry = None
     THEN /\ mres' = Done("stop", "warn")
          /\ UNCHANGED <<registry, nHandles, nThreads, hthread, hloop, hevent,
                         srvRunning, srvServer, tOwner, tpc, loopSt, stopping, ready,
                         batch, evSet, evWaiting, closeWaiting, listener, startSt,
                         extBound, waitsForConns, conn, m, hist>>
     ELSE CASE StopOutcome(registry) = "signal" -> Signal(registry, "stop")
            [] OTHER ->
                 /\ mres' = Done("stop", IF StopOutcome(registry) = "warn"
                                         THEN "warn" ELSE "raised")
                 /\ UNCHANGED <<registry, nHandles, nThreads, hthread, hloop, hevent,
                                srvRunning, srvServer, tOwner, tpc, loopSt, stopping,
                                ready, batch, evSet, evWaiting, closeWaiting, listener,
                                startSt, extBound, waitsForConns, conn, m, hist>>

\* A direct call of start_server() on the registered handle, lines 235-243.
StartServer ==
  /\ m.pc = "idle"
  /\ registry # None
  /\ IF AlreadyRunning(registry)
     THEN /\ mres' = Done("start_server", "warn")
          /\ hist' = [hist EXCEPT !.twice = IF mres.op = "start" /\ mres.out = "ok"
                                            THEN @ \cup {registry} ELSE @]
          /\ UNCHANGED <<nThreads, hthread, tOwner, tpc>>
     ELSE /\ nThreads < MaxThreads
          /\ NewThread(registry)
          /\ mres' = Done("start_server", "ok")
          /\ hist' = [hist EXCEPT !.restarts =
                        IF mres.op = "stop" /\ mres.out \in {"stopped", "timeout"}
                        THEN @ \cup {nThreads + 1} ELSE @]
  /\ UNCHANGED <<registry, nHandles, hloop, hevent, srvRunning, srvServer, loopSt,
                 stopping, ready, batch, evSet, evWaiting, closeWaiting, listener,
                 startSt, extBound, waitsForConns, conn, m>>

(***************************************************************************)
(* The background thread: run_event_loop, lines 215-233, and the tasks its *)
(* loop runs: server.start(), wait_for_stop(), the accept callback and the *)
(* connection handlers.  alive_task only logs and is left out.             *)
(***************************************************************************)

\* Line 217-218: self.loop = asyncio.new_event_loop().
NewLoop(t) ==
  /\ tpc[t] = "L217"
  /\ loopSt' = [loopSt EXCEPT ![t] = "new"]
  /\ hloop' = [hloop EXCEPT ![tOwner[t]] = t]
  /\ tpc' = [tpc EXCEPT ![t] = "L219"]
  /\ UNCHANGED <<registry, nHandles, nThreads, hthread, hevent, srvRunning, srvServer,
                 tOwner, stopping, ready, batch, evSet, evWaiting, closeWaiting,
                 listener, startSt, extBound, waitsForConns, conn, m, mres, hist>>

\* Line 219: self.stop_event = asyncio.Event().
NewEvent(t) ==
  /\ tpc[t] = "L219"
  /\ hevent' = [hevent EXCEPT ![tOwner[t]] = t]
  /\ tpc' = [tpc EXCEPT ![t] = "L222"]
  /\ UNCHANGED <<registry, nHandles, nThreads, hthread, hloop, srvRunning, srvServer,
                 tOwner, loopSt, stopping, ready, batch, evSet, evWaiting, closeWaiting,
                 listener, startSt, extBound, waitsForConns, conn, m, mres, hist>>

\* Lines 221-227: the tasks are created on self.loop and the loop is run.  With
\* self.loop None or closed, create_task raises; line 229 catches it and the
\* thread goes to the finally block.
CreateTasks(t) ==
  /\ tpc[t] = "L222"
  /\ IF hloop[tOwner[t]] = t /\ loopSt[t] = "new"
     THEN /\ ready' = [ready EXCEPT ![t] = @ \o <<Item("start1", 0), Item("wait1", 0)>>]
          /\ loopSt' = [loopSt EXCEPT ![t] = "running"]
          /\ startSt' = [startSt EXCEPT ![t] = "init"]
          /\ tpc' = [tpc EXCEPT ![t] = "run"]
     ELSE /\ tpc' = [tpc EXCEPT ![t] = "finally"]
          /\ UNCHANGED <<ready, loopSt, startSt>>
  /\ UNCHANGED <<registry, nHandles, nThreads, hthread, hloop, hevent, srvRunning,
                 srvServer, tOwner, stopping, batch, evSet, evWaiting, closeWaiting,
                 listener, extBound, waitsForConns, conn, m, mres, hist>>

\* The connections whose sockets the selector reports to loop t.
Pending(t) ==
  {c \in Conns : /\ conn[c].lsn = t
                 /\ \/ conn[c].st = "dataready"
                    \/ conn[c].st = "backlog" /\ listener[t] = "bound"}

RECURSIVE IoItems(_, _)
IoItems(t, c) ==
  IF c > MaxConns THEN <<>>
  ELSE (IF c \in Pending(t)
        THEN <<Item(IF conn[c].st = "backlog" THEN "accept" ELSE "handler", c)>>
        ELSE <<>>) \o IoItems(t, c + 1)

\* BaseEventLoop._run_once up to ntodo = len(self._ready): the selector's events
\* are queued and the batch is fixed.  A loop with nothing ready and not stopping
\* stays in select().
IterStart(t) ==
  /\ tpc[t] = "run"
  /\ ready[t] # <<>> \/ stopping[t] \/ Pending(t) # {}
  /\ LET q == ready[t] \o IoItems(t, 1) IN
     /\ ready' = [ready EXCEPT ![t] = q]
     /\ batch' = [batch EXCEPT ![t] = Len(q)]
     /\ tpc' = [tpc EXCEPT ![t] = IF q = <<>> THEN "finally" ELSE "batch"]
     /\ loopSt' = [loopSt EXCEPT ![t] = IF q = <<>> THEN "stopped" ELSE @]
     /\ stopping' = [stopping EXCEPT ![t] = IF q = <<>> THEN FALSE ELSE @]
  /\ conn' = [c \in Conns |->
                IF c \in Pending(t)
                THEN [conn[c] EXCEPT !.st = IF @ = "backlog" THEN "accepting" ELSE "scheduled"]
                ELSE conn[c]]
  /\ UNCHANGED <<registry, nHandles, nThreads, hthread, hloop, hevent, srvRunning,
                 srvServer, tOwner, evSet, evWaiting, closeWaiting, listener, startSt,
                 extBound, waitsForConns, m, mres, hist>>

\* What one callback of the batch changes: the next values of the variables a
\* callback can write.
Eff(t) == [ready |-> Tail(ready[t]), hloop |-> hloop, srvRunning |-> srvRunning,
           srvServer |-> srvServer, loopSt |-> loopSt, stopping |-> stopping,
           evSet |-> evSet, evWaiting |-> evWaiting, closeWaiting |-> closeWaiting,
           listener |-> listener, startSt |-> startSt, conn |-> conn,
           queue |-> [u \in Threads |-> <<>>], raised |-> {}]

\* wait_for_stop, lines 204-206, run by thread t: self.loop.stop() (an
\* AttributeError when self.loop is None), self.loop.close() (a RuntimeError
\* when that loop is running), self.loop = None.
StopLoop(t, e) ==
  LET h == tOwner[t]
      L == e.hloop[h]
  IN  IF L = None
      THEN [e EXCEPT !.raised = @ \cup {<<t, "wait_for_stop", "AttributeError">>}]
      ELSE IF e.loopSt[L] = "running"
      THEN [e EXCEPT !.stopping[L] = TRUE,
                     !.raised = @ \cup {<<t, "wait_for_stop", "RuntimeError">>}]
      ELSE [e EXCEPT !.stopping[L] = TRUE, !.loopSt[L] = "closed", !.hloop[h] = None]

\* Server.close(): the listening socket is closed at once; connections still in
\* its backlog are reset.
CloseListener(l, e) ==
  [e EXCEPT !.listener[l] = IF @ = "bound" THEN "closed" ELSE @,
            !.conn = [c \in Conns |->
                        IF e.conn[c].lsn = l /\ e.conn[c].st \in {"backlog", "accepting"}
                        THEN NoConn ELSE e.conn[c]]]

\* DAPGhidraServer.stop, lines 187-188, then wait_for_stop lines 204-206.
Stopped(t, e) == StopLoop(t, [e EXCEPT !.srvRunning[tOwner[t]] = FALSE])

\* wait_for_stop after stop_event.wait(), line 203: server.stop(), lines 177-186.
\* Not running: stop() returns at line 180.  Otherwise the listener is closed and
\* wait_closed() is awaited, which suspends while connections are open when
\* waitsForConns.
ServerStop(t, e) ==
  LET h == tOwner[t]
      l == e.srvServer[h]
  IN  IF ~e.srvRunning[h] THEN StopLoop(t, e)
      ELSE IF l = None THEN Stopped(t, e)
      ELSE LET e1 == CloseListener(l, e) IN
           IF waitsForConns /\ ActiveConns(l) # {}
           THEN [e1 EXCEPT !.closeWaiting[t] = l]
           ELSE Stopped(t, e1)

\* DAPGhidraServer.start, line 155: a server already marked running is not
\* started again.
StartSkips(h) == srvRunning[h]

\* asyncio.start_server, lines 160-164: the bind fails when the port is held.
BindFails == ~PortFree

\* The effect of callback it, run by loop t.
Run(t, it, e) ==
  LET h == tOwner[t] IN
  CASE it.k = "start1" ->
         IF StartSkips(h) THEN [e EXCEPT !.startSt[t] = "skipped"]
         ELSE [e EXCEPT !.startSt[t] = "resolving", !.ready = Append(@, Item("start2", 0))]
    [] it.k = "start2" ->
         IF BindFails
         THEN [e EXCEPT !.startSt[t] = "failed", !.srvRunning[h] = FALSE]
         ELSE [e EXCEPT !.startSt[t] = "listening", !.listener[t] = "bound",
                        !.ready = Append(@, Item("start3", 0))]
    [] it.k = "start3" ->
         [e EXCEPT !.startSt[t] = "done", !.srvServer[h] = t, !.srvRunning[h] = TRUE]
    [] it.k = "wait1" ->
         IF e.evSet[t] THEN ServerStop(t, e) ELSE [e EXCEPT !.evWaiting[t] = TRUE]
    [] it.k = "evset" ->
         IF e.evSet[it.a] \/ ~IsAlive(it.a) THEN e
         ELSE IF e.evWaiting[it.a]
         THEN IF it.a = t
              THEN [e EXCEPT !.evSet[it.a] = TRUE, !.evWaiting[it.a] = FALSE,
                             !.ready = Append(@, Item("wake", 0))]
              ELSE [e EXCEPT !.evSet[it.a] = TRUE, !.evWaiting[it.a] = FALSE,
                             !.queue[it.a] = <<Item("wake", 0)>>]
         ELSE [e EXCEPT !.evSet[it.a] = TRUE]
    [] it.k = "wake" -> ServerStop(t, e)
    [] it.k = "closed" -> Stopped(t, [e EXCEPT !.closeWaiting[t] = None])
    [] it.k = "accept" ->
         IF e.conn[it.a].st = "accepting"
         THEN [e EXCEPT !.conn[it.a].st = "open"] ELSE e
    [] it.k = "handler" ->
         LET e1 == [e EXCEPT !.conn[it.a] = NoConn]
             ws == {w \in Threads : e.closeWaiting[w] = t}
         IN  IF e.listener[t] # "bound"
                /\ {c \in ActiveConns(t) : c # it.a} = {}
             THEN [e1 EXCEPT !.queue = [w \in Threads |->
                                          IF w \in ws THEN <<Item("closed", 0)>> ELSE <<>>]]
             ELSE e1

\* One callback of the running batch.  After the last one, run_forever leaves
\* its loop when loop.stop() was called, line 227.
RunItem(t) ==
  /\ tpc[t] = "batch"
  /\ LET e0 == Run(t, Head(ready[t]), Eff(t))
         e == [e0 EXCEPT !.ready = IF e0.loopSt[t] = "closed" THEN <<>> ELSE @]
         last == batch[t] = 1
         exit == last /\ e.stopping[t]
     IN
     /\ ready' = [u \in Threads |->
                    IF u = t THEN e.ready \o e.queue[t] ELSE ready[u] \o e.queue[u]]
     /\ batch' = [batch EXCEPT ![t] = @ - 1]
     /\ tpc' = [tpc EXCEPT ![t] = IF exit THEN "finally" ELSE IF last THEN "run" ELSE @]
     /\ hloop' = e.hloop
     /\ srvRunning' = e.srvRunning
     /\ srvServer' = e.srvServer
     /\ loopSt' = IF exit /\ e.loopSt[t] = "running"
                  THEN [e.loopSt EXCEPT ![t] = "stopped"] ELSE e.loopSt
     /\ stopping' = IF exit THEN [e.stopping EXCEPT ![t] = FALSE] ELSE e.stopping
     /\ evSet' = e.evSet
     /\ evWaiting' = e.evWaiting
     /\ closeWaiting' = e.closeWaiting
     /\ listener' = e.listener
     /\ startSt' = e.startSt
     /\ conn' = e.conn
     /\ hist' = [hist EXCEPT !.inflight = {c \in @ : e.conn[c] # NoConn},
                             !.raised = @ \cup e.raised]
  /\ UNCHANGED <<registry, nHandles, nThreads, hthread, hevent, tOwner, extBound,
                 waitsForConns, m, mres>>

\* Line 232, self.loop.close() in the finally block: an AttributeError when
\* self.loop is None, a RuntimeError when self.loop is a running loop.
FinallyRaises(t) ==
  LET L == hloop[tOwner[t]] IN
  IF L = None THEN {<<t, "finally", "AttributeError">>}
  ELSE IF loopSt[L] = "running" THEN {<<t, "finally", "RuntimeError">>}
  ELSE {}

\* Lines 231-233, the finally block: self.loop.close(), which raises when
\* self.loop is None or a running loop; either way the thread ends.  Nothing
\* reads the queue and the event of an ended thread: they are reset.
Finally(t) ==
  /\ tpc[t] = "finally"
  /\ LET L == hloop[tOwner[t]] IN
     /\ loopSt' = IF L # None /\ loopSt[L] # "running"
                  THEN [loopSt EXCEPT ![L] = "closed"] ELSE loopSt
     /\ ready' = [u \in Threads |->
                   IF u = t \/ (u = L /\ loopSt[u] # "running") THEN <<>> ELSE ready[u]]
  /\ tpc' = [tpc EXCEPT ![t] = "dead"]
  /\ batch' = [batch EXCEPT ![t] = 0]
  /\ evSet' = [evSet EXCEPT ![t] = FALSE]
  /\ evWaiting' = [evWaiting EXCEPT ![t] = FALSE]
  /\ hist' = [hist EXCEPT !.raised = @ \cup FinallyRaises(t)]
  /\ UNCHANGED <<registry, nHandles, nThreads, hthread, hloop, hevent, srvRunning,
                 srvServer, tOwner, stopping, closeWaiting,
                 listener, startSt, extBound, waitsForConns, conn, m, mres>>

(***************************************************************************)
(* The environment: clients of the port, and the garbage collector.        *)
(***************************************************************************)

\* A client connects: the kernel queues the connection on the bound listener.
\* The lowest free slot is taken.
Connect(c) ==
  /\ conn[c].st = "none"
  /\ \A d \in Conns : d < c => conn[d].st # "none"
  /\ \E t \in Threads :
       /\ listener[t] = "bound"
       /\ conn' = [conn EXCEPT ![c] = [st |-> "backlog", lsn |-> t]]
  /\ UNCHANGED <<registry, nHandles, nThreads, hthread, hloop, hevent, srvRunning,
                 srvServer, tOwner, tpc, loopSt, stopping, ready, batch, evSet,
                 evWaiting, closeWaiting, listener, startSt, extBound, waitsForConns,
                 m, mres, hist>>

\* The client of an accepted connection completes its request (or closes).
ClientSends(c) ==
  /\ conn[c].st = "open"
  /\ conn' = [conn EXCEPT ![c].st = "dataready"]
  /\ UNCHANGED <<registry, nHandles, nThreads, hthread, hloop, hevent, srvRunning,
                 srvServer, tOwner, tpc, loopSt, stopping, ready, batch, evSet,
                 evWaiting, closeWaiting, listener, startSt, extBound, waitsForConns,
                 m, mres, hist>>

\* A handle is reachable from the registry slot, the running script or a live
\* thread of its own.
Reachable(h) ==
  \/ registry = h
  \/ m.h = h
  \/ \E t \in Threads : tOwner[t] = h /\ IsAlive(t)

\* A bound listener no live thread and no reachable handle refers to may be
\* closed by the garbage collector at any time.
Collect(l) ==
  /\ listener[l] = "bound"
  /\ ~IsAlive(l)
  /\ \A h \in Handles : srvServer[h] = l => ~Reachable(h)
  /\ listener' = [listener EXCEPT ![l] = "closed"]
  /\ conn' = [c \in Conns |->
                IF conn[c].lsn = l /\ conn[c].st \in {"backlog", "accepting"}
                THEN NoConn ELSE conn[c]]
  /\ UNCHANGED <<registry, nHandles, nThreads, hthread, hloop, hevent, srvRunning,
                 srvServer, tOwner, tpc, loopSt, stopping, ready, batch, evSet,
                 evWaiting, closeWaiting, startSt, extBound, waitsForConns,
                 m, mres, hist>>


ThreadStep ==
  \/ \E t \in Threads : NewLoop(t) /\ UNCHANGED <<hvars, avars>>
  \/ \E t \in Threads : NewEvent(t) /\ UNCHANGED <<hvars, avars>>
  \/ \E t \in Threads : CreateTasks(t) /\ UNCHANGED <<hvars, avars>>
  \/ \E t \in Threads : IterStart(t) /\ UNCHANGED <<hvars, avars>>
  \/ \E t \in Threads : RunItem(t) /\ UNCHANGED <<hvars, avars>>
  \/ \E t \in Threads : Finally(t) /\ UNCHANGED <<hvars, avars>>

EnvStep ==
  \/ \E c \in Conns : Connect(c) /\ UNCHANGED <<hvars, avars>>
  \/ \E c \in Conns : ClientSends(c) /\ UNCHANGED <<hvars, avars>>
  \/ \E l \in Threads : Collect(l) /\ UNCHANGED <<hvars, avars>>

(***************************************************************************)
(* Bytes and strings                                                       *)
(***************************************************************************)

CRLF == <<"\r", "\n">>

Whitespace == {" ", "\t", "\r", "\n"}

DecDigits == <<"0", "1", "2", "3", "4", "5", "6", "7", "8", "9">>

HexDigits == DecDigits \o <<"a", "b", "c", "d", "e", "f">>

Range(s) == {s[i] : i \in 1..Len(s)}

DigitOf(x, digits) == (CHOOSE i \in 1..Len(digits) : digits[i] = x) - 1

\* str.lower() on the symbols that header names and hex digits are written with
Lower(x) ==
  CASE x = "Content-Length" -> "content-length"
    [] x = "X-Id" -> "x-id"
    [] x = "A" -> "a"
    [] x = "B" -> "b"
    [] x = "C" -> "c"
    [] x = "D" -> "d"
    [] x = "E" -> "e"
    [] x = "F" -> "f"
    [] x = "X" -> "x"
    [] OTHER -> x

LowerSeq(s) == [i \in 1..Len(s) |-> Lower(s[i])]

RECURSIVE LStrip(_)
LStrip(s) == IF s # <<>> /\ Head(s) \in Whitespace THEN LStrip(Tail(s)) ELSE s

RECURSIVE RStrip(_)
RStrip(s) ==
  IF s # <<>> /\ s[Len(s)] \in Whitespace THEN RStrip(SubSeq(s, 1, Len(s) - 1))
  ELSE s

\* str.strip()
Strip(s) == RStrip(LStrip(s))

\* str.startswith(p)
StartsWith(s, p) == Len(s) >= Len(p) /\ SubSeq(s, 1, Len(p)) = p

\* bytes.decode(): UnicodeDecodeError on a byte that is not UTF-8
Decodes(b) == "BAD" \notin Range(b)

\* the position of the first x in s, 0 when there is none
FirstIndex(s, x) ==
  IF x \in Range(s) THEN CHOOSE i \in 1..Len(s) : s[i] = x /\ \A j \in 1..(i - 1) : s[j] # x
  ELSE 0

RECURSIVE Value(_, _, _)
Value(s, base, digits) ==
  IF s = <<>> THEN 0
  ELSE base * Value(SubSeq(s, 1, Len(s) - 1), base, digits) + DigitOf(s[Len(s)], digits)

\* int(s, base) of a string: surrounding whitespace, a sign, for base 16 a
\* 0x prefix, then digits; ValueError otherwise
PyInt(s, base, digits) ==
  LET t == Strip(s)
      signed == t # <<>> /\ Head(t) \in {"+", "-"}
      u == IF signed THEN Tail(t) ELSE t
      prefixed == base = 16 /\ Len(u) >= 2 /\ u[1] = "0" /\ Lower(u[2]) = "x"
      d == LowerSeq(IF prefixed THEN SubSeq(u, 3, Len(u)) ELSE u)
  IN IF d = <<>> \/ ~(Range(d) \subseteq Range(digits)) THEN [ok |-> FALSE, v |-> 0]
     ELSE [ok |-> TRUE,
           v |-> IF signed /\ Head(t) = "-" THEN 0 - Value(d, base, digits)
                 ELSE Value(d, base, digits)]

(***************************************************************************)
(* json.loads on the token strings used as bodies.  A result is a record   *)
(* [ok, kind, address]: kind is "dict" or "other"; address is the value    *)
(* token of the last "address" member, "absent" when there is none.        *)
(***************************************************************************)

JStrings == {"'0x1400'", "'0X1400'", "' 14 '", "''", "'zz'"}

JKeys == {"'address'", "'other'"}

JScalars == JStrings \cup JKeys \cup {"1", "0", "null"}

JFail == [ok |-> FALSE, kind |-> "other", address |-> "absent"]

JDict(a) == [ok |-> TRUE, kind |-> "dict", address |-> a]

JMember(t, i) == t[i] \in JStrings \cup JKeys /\ t[i + 1] = ":" /\ t[i + 2] \in JScalars

JsonLoads(b) ==
  LET t == SelectSeq(b, LAMBDA x : x \notin Whitespace)
      n == Len(t)
  IN CASE n = 1 /\ t[1] \in JScalars -> [ok |-> TRUE, kind |-> "other", address |-> "absent"]
       [] n = 2 /\ t = <<"[", "]">> -> [ok |-> TRUE, kind |-> "other", address |-> "absent"]
       [] n = 2 /\ t = <<"{", "}">> -> JDict("absent")
       [] n = 5 /\ t[1] = "{" /\ t[5] = "}" /\ JMember(t, 2) ->
            JDict(IF t[2] = "'address'" THEN t[4] ELSE "absent")
       [] n = 9 /\ t[1] = "{" /\ t[9] = "}" /\ t[5] = "," /\ JMember(t, 2) /\ JMember(t, 6) ->
            JDict(IF t[6] = "'address'" THEN t[8]
                  ELSE IF t[2] = "'address'" THEN t[4] ELSE "absent")
       [] OTHER -> JFail

\* the characters of a JSON string token
Chars(tok) ==
  CASE tok = "'0x1400'" -> <<"0", "x", "1", "4", "0", "0">>
    [] tok = "'0X1400'" -> <<"0", "X", "1", "4", "0", "0">>
    [] tok = "' 14 '" -> <<" ", "1", "4", " ">>
    [] tok = "'zz'" -> <<"z", "z">>
    [] tok = "'address'" -> <<"a", "d", "d", "r", "e", "s", "s">>
    [] tok = "'other'" -> <<"o", "t", "h", "e", "r">>
    [] OTHER -> <<>>

\* Python truth value of data.get('address')
Truthy(a) == a \notin {"absent", "''", "0", "null"}

(***************************************************************************)
(* goto_address: what the call does with the value of the address member.  *)
(* A value that is not a string has no strip(): the outer except logs it.  *)
(***************************************************************************)

\* a Python value passed as address_str: a str with its characters, or a
\* value of another type
Text(s) == [str |-> TRUE, chars |-> s]

NonStr == [str |-> FALSE, chars |-> <<>>]

\* goto_address has not been called
NoRet == [post |-> FALSE, v |-> 0, log |-> "uncalled", raised |-> FALSE]

\* the Python value of a JSON value token
PyValue(tok) == IF tok \in JStrings \cup JKeys THEN Text(Chars(tok)) ELSE NonStr

StripPrefix_OneChar(s) ==
  IF StartsWith(s, <<"0", "x">>) \/ StartsWith(s, <<"0", "X">>)
  THEN SubSeq(s, 2, Len(s)) ELSE s

\* lines 60-61: address_str[2:] when address_str starts with 0x or 0X
StripPrefix(s) ==
  IF StartsWith(s, <<"0", "x">>) \/ StartsWith(s, <<"0", "X">>)
  THEN SubSeq(s, 3, Len(s)) ELSE s

\* the try body, lines 59-93: the exception it raises, "none" when it posts
\* navigate() for the value v.  A value that is not a str has no strip().
TryBody(a) ==
  IF ~a.str THEN [ex |-> "AttributeError", v |-> 0]
  ELSE LET p == PyInt(StripPrefix(Strip(a.chars)), 16, HexDigits)
       IN IF p.ok THEN [ex |-> "none", v |-> p.v]
          ELSE [ex |-> "ValueError", v |-> 0]

\* the exception classes below Exception that the try body can raise
Exceptions == {"ValueError", "AttributeError"}

ExceptClauses_ValueErrorOnly(ex) ==
  IF ex = "ValueError" THEN "invalid" ELSE "escapes"

\* lines 95-98: the except clause that takes the exception and what it logs;
\* "escapes" when none does
ExceptClauses(ex) ==
  CASE ex = "ValueError" -> "invalid"
    [] ex # "ValueError" /\ ex \in Exceptions -> "error"
    [] OTHER -> "escapes"

goto_address(a) ==
  LET t == TryBody(a)
  IN IF t.ex = "none"
     THEN [post |-> TRUE, v |-> t.v, log |-> "none", raised |-> FALSE]
     ELSE [post |-> FALSE, v |-> 0, log |-> ExceptClauses(t.ex),
           raised |-> ExceptClauses(t.ex) = "escapes"]

(***************************************************************************)
(* The requests a client may send                                          *)
(***************************************************************************)

POST == <<"P", "O", "S", "T">>

GET == <<"G", "E", "T">>

GotoPath == <<"/", "g", "o", "t", "o">>

\* 'POST /goto', the prefix tested on the request line
PostGoto == POST \o <<" ">> \o GotoPath

Targets ==
  { [method |-> POST, path |-> GotoPath],
    [method |-> POST, path |-> GotoPath \o <<"x">>],
    [method |-> POST, path |-> <<"/">>],
    [method |-> GET, path |-> GotoPath],
    [method |-> <<"G", "BAD", "T">>, path |-> <<"/">>] }

Bodies ==
  { <<"{", "'address'", ":", "'0x1400'", "}">>,
    <<"{", "'address'", ":", "'0x1400'", "}", "\n">>,
    <<"{", "'address'", ":", "'zz'", "}">>,
    <<"{", "'address'", ":", "1", "}">>,
    <<"{", "'address'", ":", "''", "}">>,
    <<"{", "'other'", ":", "'0x1400'", "}">>,
    <<"[", "]">>,
    <<"{", "BAD", "}">>,
    <<>> }

\* a Content-Length larger than every body
TooLong == "9"

HeaderLines(body) ==
  { <<"Content-Length", ":", " ", DecDigits[Len(body) + 1]>>,
    <<"content-length", ":", DecDigits[Len(body) + 1]>>,
    <<"Content-Length", ":", " ", TooLong>>,
    <<"Content-Length", ":", " ", "a">>,
    <<"X-Id", ":", " ", "1">>,
    <<"X-Id", ":", " ", "BAD">> }

HeaderSeqs(body) ==
  UNION {[1..n -> HeaderLines(body)] : n \in 0..MaxHeaders}

Requests ==
  UNION { { [method |-> t.method, path |-> t.path, headers |-> hs, body |-> b] :
              t \in Targets, hs \in HeaderSeqs(b) } : b \in Bodies }

NoReq == [method |-> <<>>, path |-> <<>>, headers |-> <<>>, body |-> <<>>]

RECURSIVE Lines(_)
Lines(hs) == IF hs = <<>> THEN <<>> ELSE Head(hs) \o CRLF \o Lines(Tail(hs))

\* the bytes of a request, in the order the client sends them
Wire(r) ==
  r.method \o <<" ">> \o r.path \o <<" ", "HTTP/1.1">> \o CRLF
    \o Lines(r.headers) \o CRLF \o r.body

(***************************************************************************)
(* The client and the transport                                            *)
(***************************************************************************)

\* asyncio calls handle_client for an accepted connection
HConnect(c) ==
  /\ hpc[c] = "none"
  /\ \E r \in Requests : hreq' = [hreq EXCEPT ![c] = r]
  /\ hpc' = [hpc EXCEPT ![c] = "reqline"]
  /\ UNCHANGED <<sent, buf, eofd, rline, hdrs, clen, bodyRead, resp, closed, herr, navq,
                 navdone>>

\* the client sends the next bytes of the request, in a segment of any size;
\* they reach the StreamReader unless the handler has closed the connection
Deliver(c) ==
  /\ hpc[c] # "none"
  /\ \E k \in 1..(Len(Wire(hreq[c])) - sent[c]) :
       /\ buf' = [buf EXCEPT ![c] =
                    IF closed[c] THEN @
                    ELSE @ \o SubSeq(Wire(hreq[c]), sent[c] + 1, sent[c] + k)]
       /\ sent' = [sent EXCEPT ![c] = @ + k]
  /\ UNCHANGED <<hreq, eofd, hpc, rline, hdrs, clen, bodyRead, resp, closed, herr, navq,
                 navdone>>

\* the client has sent the whole request and shuts its sending side
ClientEof(c) ==
  /\ hpc[c] # "none"
  /\ ~closed[c]
  /\ ~eofd[c]
  /\ sent[c] = Len(Wire(hreq[c]))
  /\ eofd' = [eofd EXCEPT ![c] = TRUE]
  /\ UNCHANGED <<hreq, sent, buf, hpc, rline, hdrs, clen, bodyRead, resp, closed, herr,
                 navq, navdone>>

(***************************************************************************)
(* StreamReader                                                            *)
(***************************************************************************)

\* readline() can return: a whole line is buffered, or the stream is at EOF
LineReady(c) == "\n" \in Range(buf[c]) \/ eofd[c]

\* the length of what readline() returns: up to and including the first LF,
\* or whatever is left at EOF
LineLen(c) ==
  IF "\n" \in Range(buf[c]) THEN FirstIndex(buf[c], "\n") ELSE Len(buf[c])

\* read(n) can return: n = 0 at once, n < 0 at EOF, n > 0 as soon as
\* the buffer holds anything or the stream is at EOF
ReadReady(c, n) ==
  \/ n = 0
  \/ n < 0 /\ eofd[c]
  \/ n > 0 /\ (buf[c] # <<>> \/ eofd[c])

\* the length of what read(n) returns
ReadLen(c, n) ==
  IF n < 0 \/ n > Len(buf[c]) THEN Len(buf[c]) ELSE n

(***************************************************************************)
(* handle_client                                                           *)
(***************************************************************************)

\* an exception reaches the outer except: it is logged, nothing is written
\* and the finally clause closes the connection
Fail(c) ==
  /\ herr' = [herr EXCEPT ![c] = "handler"]
  /\ closed' = [closed EXCEPT ![c] = TRUE]
  /\ hpc' = [hpc EXCEPT ![c] = "done"]

\* a response is written and drained, then the finally clause closes
Respond(c, status) ==
  /\ resp' = [resp EXCEPT ![c] = Append(@, status)]
  /\ closed' = [closed EXCEPT ![c] = TRUE]
  /\ hpc' = [hpc EXCEPT ![c] = "done"]

HReadRequestLine(c) ==
  /\ hpc[c] = "reqline"
  /\ LineReady(c)
  /\ LET line == SubSeq(buf[c], 1, LineLen(c))
     IN /\ buf' = [buf EXCEPT ![c] = SubSeq(@, LineLen(c) + 1, Len(@))]
        /\ IF Decodes(line)
           THEN /\ rline' = [rline EXCEPT ![c] = Strip(line)]
                /\ hpc' = [hpc EXCEPT ![c] = "headers"]
                /\ UNCHANGED <<closed, herr>>
           ELSE /\ Fail(c)
                /\ UNCHANGED rline
  /\ UNCHANGED <<hreq, sent, eofd, hdrs, clen, bodyRead, resp, navq, navdone>>

\* headers[key.strip().lower()] = value.strip(), split at the first colon
PutHeader(h, line) ==
  LET i == FirstIndex(line, ":")
      key == LowerSeq(Strip(SubSeq(line, 1, i - 1)))
      value == Strip(SubSeq(line, i + 1, Len(line)))
  IN {p \in h : p[1] # key} \cup {<<key, value>>}

\* int(headers.get('content-length', 0))
ContentLength(h) ==
  IF \E p \in h : p[1] = <<"content-length">>
  THEN PyInt((CHOOSE p \in h : p[1] = <<"content-length">>)[2], 10, DecDigits)
  ELSE [ok |-> TRUE, v |-> 0]

\* request_line.startswith('POST /goto')
PrefixMatch(line) == StartsWith(line, PostGoto)

\* one turn of the header loop; the blank line ends it, and the handler
\* goes on to the request-line test and the Content-Length conversion
HReadHeader(c) ==
  /\ hpc[c] = "headers"
  /\ LineReady(c)
  /\ LET raw == SubSeq(buf[c], 1, LineLen(c))
         line == Strip(raw)
         cl == ContentLength(hdrs[c])
     IN /\ buf' = [buf EXCEPT ![c] = SubSeq(@, LineLen(c) + 1, Len(@))]
        /\ CASE ~Decodes(raw) ->
                  /\ Fail(c)
                  /\ UNCHANGED <<hdrs, clen, resp>>
             [] Decodes(raw) /\ line # <<>> ->
                  /\ hdrs' = [hdrs EXCEPT ![c] =
                                IF ":" \in Range(line) THEN PutHeader(@, line) ELSE @]
                  /\ UNCHANGED <<hpc, clen, resp, closed, herr>>
             [] Decodes(raw) /\ line = <<>> /\ ~PrefixMatch(rline[c]) ->
                  /\ Respond(c, "404")
                  /\ UNCHANGED <<hdrs, clen, herr>>
             [] Decodes(raw) /\ line = <<>> /\ PrefixMatch(rline[c]) /\ ~cl.ok ->
                  /\ Fail(c)
                  /\ UNCHANGED <<hdrs, clen, resp>>
             [] Decodes(raw) /\ line = <<>> /\ PrefixMatch(rline[c]) /\ cl.ok ->
                  /\ clen' = [clen EXCEPT ![c] = cl.v]
                  /\ hpc' = [hpc EXCEPT ![c] = "body"]
                  /\ UNCHANGED <<hdrs, resp, closed, herr>>
  /\ UNCHANGED <<hreq, sent, eofd, rline, bodyRead, navq, navdone>>

\* body = await reader.read(content_length), then the JSON branch
HReadBody(c) ==
  /\ hpc[c] = "body"
  /\ ReadReady(c, clen[c])
  /\ LET n == ReadLen(c, clen[c])
         body == SubSeq(buf[c], 1, n)
         data == IF Decodes(body) THEN JsonLoads(body) ELSE JFail
         go == goto_address(PyValue(data.address))
     IN /\ buf' = [buf EXCEPT ![c] = SubSeq(@, n + 1, Len(@))]
        /\ bodyRead' = [bodyRead EXCEPT ![c] = body]
        /\ CASE ~data.ok \/ data.kind # "dict" ->
                  /\ Respond(c, "500")
                  /\ herr' = [herr EXCEPT ![c] = "request"]
                  /\ UNCHANGED navq
             [] data.ok /\ data.kind = "dict" /\ ~Truthy(data.address) ->
                  /\ Respond(c, "400")
                  /\ UNCHANGED <<herr, navq>>
             [] data.ok /\ data.kind = "dict" /\ Truthy(data.address) ->
                  /\ Respond(c, IF go.raised THEN "500" ELSE "200")
                  /\ navq' = IF go.post THEN Append(navq, go.v) ELSE navq
                  /\ herr' = IF go.raised THEN [herr EXCEPT ![c] = "request"] ELSE herr
  /\ UNCHANGED <<hreq, sent, eofd, rline, hdrs, clen, navdone>>

(***************************************************************************)
(* The UI thread runs a posted navigate()                                  *)
(***************************************************************************)

NavOutcomes ==
  {"navigated", "no_program", "invalid_address", "no_service", "no_tool", "error"}

UiRun ==
  /\ navq # <<>>
  /\ \E o \in NavOutcomes : navdone' = navdone \cup {[v |-> Head(navq), outcome |-> o]}
  /\ navq' = Tail(navq)
  /\ UNCHANGED <<hreq, sent, buf, eofd, hpc, rline, hdrs, clen, bodyRead, resp, closed,
                 herr>>

(***************************************************************************)
(* The lifecycle specifications.  The request handler is not followed: its *)
(* variables keep the values of NoHttp.                                    *)
(***************************************************************************)

NoHttp ==
  /\ hreq = [c \in Clients |-> NoReq]
  /\ sent = [c \in Clients |-> 0]
  /\ buf = [c \in Clients |-> <<>>]
  /\ eofd = [c \in Clients |-> FALSE]
  /\ hpc = [c \in Clients |-> "none"]
  /\ rline = [c \in Clients |-> <<>>]
  /\ hdrs = [c \in Clients |-> {}]
  /\ clen = [c \in Clients |-> 0]
  /\ bodyRead = [c \in Clients |-> <<>>]
  /\ resp = [c \in Clients |-> <<>>]
  /\ closed = [c \in Clients |-> FALSE]
  /\ herr = [c \in Clients |-> "none"]
  /\ navq = <<>>
  /\ navdone = {}

\* goto_address is not called on its own
NoCall == arg = NonStr /\ ret = NoRet

Init == InitLifecycle /\ NoHttp /\ NoCall

NextScripts ==
  \/ StartScript /\ UNCHANGED <<hvars, avars>>
  \/ JoinEnds /\ UNCHANGED <<hvars, avars>>
  \/ Replace /\ UNCHANGED <<hvars, avars>>
  \/ StopScript /\ UNCHANGED <<hvars, avars>>
  \/ ThreadStep
  \/ EnvStep

\* One handle: the start script runs once, then the stop script and direct
\* start_server() calls act on the handle it registered.
NextHandle ==
  \/ StartScript /\ registry = None /\ UNCHANGED <<hvars, avars>>
  \/ JoinEnds /\ UNCHANGED <<hvars, avars>>
  \/ Replace /\ UNCHANGED <<hvars, avars>>
  \/ StopScript /\ UNCHANGED <<hvars, avars>>
  \/ StartServer /\ UNCHANGED <<hvars, avars>>
  \/ ThreadStep
  \/ EnvStep

SpecScripts == Init /\ [][NextScripts]_vars

SpecHandle == Init /\ [][NextHandle]_vars

(***************************************************************************)
(* The request handler on its own.  The lifecycle is not followed: the     *)
(* handler is taken from the moment asyncio calls it for an accepted       *)
(* connection, and the lifecycle variables keep their initial values.      *)
(* One connection is followed.                                             *)
(***************************************************************************)

InitHttp == Init /\ ~extBound /\ ~waitsForConns

NextHttp ==
  \/ \E c \in Clients : c = 1 /\ HConnect(c) /\ UNCHANGED <<lvars, avars>>
  \/ \E c \in Clients : Deliver(c) /\ UNCHANGED <<lvars, avars>>
  \/ \E c \in Clients : ClientEof(c) /\ UNCHANGED <<lvars, avars>>
  \/ \E c \in Clients : HReadRequestLine(c) /\ UNCHANGED <<lvars, avars>>
  \/ \E c \in Clients : HReadHeader(c) /\ UNCHANGED <<lvars, avars>>
  \/ \E c \in Clients : HReadBody(c) /\ UNCHANGED <<lvars, avars>>
  \/ UiRun /\ UNCHANGED <<lvars, avars>>

SpecHttp == InitHttp /\ [][NextHttp]_vars

(***************************************************************************)
(* Several connections at once.  Each accepted connection has its own      *)
(* handle_client task on the one event loop; a task that awaits readline() *)
(* or read() gives the loop back, and the loop runs every task that can    *)
(* go on.  The clients send one of two requests, which a client may stop   *)
(* sending at any byte.                                                    *)
(***************************************************************************)

ConcBody == <<"{", "'address'", ":", "'0x1400'", "}">>

ConcRequests ==
  { [method |-> t, path |-> GotoPath,
     headers |-> <<<<"Content-Length", ":", " ", DecDigits[Len(ConcBody) + 1]>>>>,
     body |-> ConcBody] : t \in {POST, GET} }

\* connections are accepted into the lowest free slot
ConcConnect(c) ==
  /\ \A d \in Clients : d < c => hpc[d] # "none"
  /\ HConnect(c)
  /\ hreq'[c] \in ConcRequests

NextConc ==
  \/ \E c \in Clients : ConcConnect(c) /\ UNCHANGED <<lvars, avars>>
  \/ \E c \in Clients : Deliver(c) /\ UNCHANGED <<lvars, avars>>
  \/ \E c \in Clients : ClientEof(c) /\ UNCHANGED <<lvars, avars>>
  \/ \E c \in Clients : HReadRequestLine(c) /\ UNCHANGED <<lvars, avars>>
  \/ \E c \in Clients : HReadHeader(c) /\ UNCHANGED <<lvars, avars>>
  \/ \E c \in Clients : HReadBody(c) /\ UNCHANGED <<lvars, avars>>
  \/ UiRun /\ UNCHANGED <<lvars, avars>>

\* the handler task of connection c can go on: the read it awaits can return
HandlerReady(c) ==
  \/ hpc[c] \in {"reqline", "headers"} /\ LineReady(c)
  \/ hpc[c] = "body" /\ ReadReady(c, clen[c])

SpecConc == InitHttp /\ [][NextConc]_vars

(***************************************************************************)
(* goto_address on its own: one call with an argument out of AddrInputs,   *)
(* then the UI thread runs what the call posted.                           *)
(***************************************************************************)

AddrChars == {"0", "1", "a", "F", "x", "X", "g", " ", "-"}

AddrTexts == UNION {[1..n -> AddrChars] : n \in 0..MaxAddrLen}

AddrInputs == {Text(s) : s \in AddrTexts} \cup {NonStr}

InitAddr ==
  /\ InitLifecycle /\ ~extBound /\ ~waitsForConns
  /\ NoHttp
  /\ arg \in AddrInputs
  /\ ret = NoRet

GotoCall ==
  /\ ret = NoRet
  /\ ret' = goto_address(arg)
  /\ navq' = IF ret'.post THEN Append(navq, ret'.v) ELSE navq
  /\ UNCHANGED <<arg, hreq, sent, buf, eofd, hpc, rline, hdrs, clen, bodyRead, resp,
                 closed, herr, navdone>>

NextAddr ==
  \/ GotoCall /\ UNCHANGED lvars
  \/ UiRun /\ UNCHANGED <<lvars, avars>>

SpecAddr == InitAddr /\ [][NextAddr]_vars

Next == NextScripts \/ NextHandle \/ NextHttp \/ NextConc \/ NextAddr

Spec == Init /\ [][Next]_vars

(***************************************************************************)
(* Properties of the lifecycle.                                            *)
(***************************************************************************)

Alive == {t \in Threads : IsAlive(t)}

Bound == {t \in Threads : listener[t] = "bound"}

\* C1: over start-script and stop-script runs no two listeners are bound to the
\* port at once, and the thread of a handle is started (so its listener bound)
\* only after stop_server() has returned on every handle registered before it.
C1_OneListener ==
  /\ Cardinality(Bound) <= 1
  /\ \A t \in Threads : tpc[t] # "unborn" =>
        \A h \in Handles : h < tOwner[t] => h \in hist.stoppedFirst

\* C1 witness: the second handle's listener is bound after the first handle,
\* whose listener had been bound, was stopped and replaced.
C1_Witness ==
  \E t, u \in Threads :
    /\ tOwner[t] = 1 /\ listener[t] = "closed"
    /\ tOwner[u] = 2 /\ listener[u] = "bound"

\* C2: after a completed run of the start script exactly one thread is alive,
\* the thread of the registered handle; the threads of all handles registered
\* before have exited.
C2_OneInstanceAfterStart ==
  (m.pc = "idle" /\ mres = [op |-> "start", out |-> "ok"]) =>
     Alive = {hthread[registry]}

\* C3: stop_server() called on a started handle never raises.
C3_StopNeverRaises == mres.out # "raised"

\* C4: when stop_server() returns on a started handle its listener is released,
\* and the start_server() that follows binds a listener (unless another process
\* holds the port).
C4_RestartBinds ==
  /\ (m.pc = "idle" /\ mres.op = "stop" /\ mres.out \in {"stopped", "timeout"}) =>
        \A t \in Threads : tOwner[t] = registry => listener[t] # "bound"
  /\ \A t \in hist.restarts : extBound \/ startSt[t] \notin {"skipped", "failed"}

\* C5: after the bind has failed the handle does not count as running.
C5_FailedStartIsStopped ==
  \A t \in Threads :
    (startSt[t] = "failed" /\ hthread[tOwner[t]] = t) => ~IsAlive(t)

\* C6: start_server() on a started handle returns with a warning and starts no
\* thread; a handle started twice in a row has exactly one thread, which is
\* alive, and one listener once its start has completed.
C6_StartTwice ==
  /\ [](\A h \in hist.twice :
          /\ {t \in Threads : tOwner[t] = h} = {hthread[h]}
          /\ IsAlive(hthread[h])
          /\ startSt[hthread[h]] # "skipped"
          /\ startSt[hthread[h]] = "done" => Bound = {hthread[h]})
  /\ [][(/\ m.pc = "idle" /\ m'.pc = "idle"
         /\ registry # None /\ hthread[registry] # None /\ IsAlive(hthread[registry]))
        => /\ nThreads' = nThreads /\ hthread' = hthread
           /\ (mres' # mres /\ mres'.op = "start_server") => mres'.out = "warn"]_vars

\* C6 witness: the handle was started twice in a row and its listener is bound.
C6_Witness ==
  /\ registry \in hist.twice
  /\ mres = [op |-> "start_server", out |-> "warn"]
  /\ Bound = {hthread[registry]}

\* C7: once stop_server() has reported a thread stopped, the thread has exited
\* and no connection handler starts on it.
C7_NoAcceptAfterStop ==
  /\ [](\A t \in hist.clean : ~IsAlive(t))
  /\ [][\A c \in Conns : (conn'[c].st = "open" /\ conn[c].st # "open")
                            => conn'[c].lsn \notin hist.clean]_vars

\* C7 witness: a client connects to the port after the stop was reported (the
\* listener of the stopped thread is still bound) and waits in the backlog.
C7_Witness ==
  \E c \in Conns : conn[c].st = "backlog" /\ conn[c].lsn \in hist.clean

\* C8: the stop script run with no handle registered, or with a registered
\* handle that has no live thread, returns with a warning and changes nothing.
C8_StopIdempotent ==
  [][(/\ m.pc = "idle" /\ m'.pc = "idle"
      /\ mres' # mres /\ mres'.op = "stop"
      /\ (registry = None \/ hthread[registry] = None \/ ~IsAlive(hthread[registry])))
     => /\ mres'.out = "warn"
        /\ UNCHANGED <<registry, nHandles, nThreads, hthread, hloop, hevent,
                       srvRunning, srvServer, tpc, loopSt, ready, listener>>]_vars

\* C8 witness: the stop script has run on a handle it had already stopped.
C8_Witness ==
  /\ mres = [op |-> "stop", out |-> "warn"]
  /\ registry # None /\ hthread[registry] = None
  /\ hist.clean # {}

(***************************************************************************)
(* Claims about the request handler                                        *)
(***************************************************************************)

IsContentLength(h) == Lower(h[1]) = "content-length"

\* the value a header line carries after its colon
HeaderValue(h) == SubSeq(h, FirstIndex(h, ":") + 1, Len(h))

\* a POST /goto request with valid headers, a Content-Length, every
\* Content-Length equal to the length of the body, and a JSON object body
\* whose address member is not empty
WellFormedGoto(r) ==
  /\ r.method = POST
  /\ r.path = GotoPath
  /\ \A i \in 1..Len(r.headers) : Decodes(r.headers[i])
  /\ \E i \in 1..Len(r.headers) : IsContentLength(r.headers[i])
  /\ \A i \in 1..Len(r.headers) :
       IsContentLength(r.headers[i]) =>
         PyInt(HeaderValue(r.headers[i]), 10, DecDigits) = [ok |-> TRUE, v |-> Len(r.body)]
  /\ Decodes(r.body)
  /\ JsonLoads(r.body).ok
  /\ JsonLoads(r.body).kind = "dict"
  /\ Truthy(JsonLoads(r.body).address)

\* C9: a well-formed POST /goto request with an accurate Content-Length and
\* a non-empty address is answered 200 OK, and by nothing else, however its
\* bytes are delivered and whatever becomes of the posted navigation.
C9_GotoIs200 ==
  \A c \in Clients :
    (hpc[c] = "done" /\ WellFormedGoto(hreq[c])) => resp[c] = <<"200">>

\* C10: a request whose method is not POST or whose path is not /goto is
\* answered 404 Not Found, and by nothing else, and no navigation is posted.
C10_OtherIs404 ==
  \A c \in Clients :
    (hpc[c] = "done" /\ (hreq[c].method # POST \/ hreq[c].path # GotoPath)) =>
      /\ resp[c] = <<"404">>
      /\ navq = <<>>
      /\ navdone = {}

\* a POST /goto request with valid headers
ValidGoto(r) ==
  /\ r.method = POST
  /\ r.path = GotoPath
  /\ \A i \in 1..Len(r.headers) : Decodes(r.headers[i])

\* no Content-Length header, or none that is an integer
LengthAbsentOrMalformed(r) ==
  \A i \in 1..Len(r.headers) :
    IsContentLength(r.headers[i]) => ~PyInt(HeaderValue(r.headers[i]), 10, DecDigits).ok

\* a Content-Length header, and every one equal to the length of the body
LengthAccurate(r) ==
  /\ \E i \in 1..Len(r.headers) : IsContentLength(r.headers[i])
  /\ \A i \in 1..Len(r.headers) :
       IsContentLength(r.headers[i]) =>
         PyInt(HeaderValue(r.headers[i]), 10, DecDigits) = [ok |-> TRUE, v |-> Len(r.body)]

\* the handler got as far as decoding a body
BodyDecoded(c) == resp[c] # <<>> /\ resp[c][1] \in {"200", "400", "500"}

\* C11: a POST /goto request whose Content-Length is absent or not an integer is
\* handled with an empty body and is answered by one response of the table
\* before the connection is closed.
C11_BadLengthIsZero ==
  \A c \in Clients :
    (hpc[c] = "done" /\ ValidGoto(hreq[c]) /\ LengthAbsentOrMalformed(hreq[c])) =>
      /\ Len(resp[c]) = 1
      /\ BodyDecoded(c)
      /\ bodyRead[c] = <<>>

\* C12: with an accurate Content-Length, the bytes handed to the JSON decoder
\* are the whole body, however the body was delivered.
C12_BodyReadWhole ==
  \A c \in Clients :
    (/\ hpc[c] = "done"
     /\ ValidGoto(hreq[c])
     /\ LengthAccurate(hreq[c])
     /\ BodyDecoded(c)) => bodyRead[c] = hreq[c].body

\* C13: a connection whose request was received in full has been answered by
\* exactly one response when its handler ends, and is closed.
C13_OneResponse ==
  \A c \in Clients :
    (hpc[c] = "done" /\ sent[c] = Len(Wire(hreq[c]))) =>
      /\ Len(resp[c]) = 1
      /\ closed[c]

\* the client has sent its whole request
Complete(c) == hpc[c] # "none" /\ sent[c] = Len(Wire(hreq[c]))

\* the client has stopped in the middle of its request and the handler waits
Stalled(c) == hpc[c] \in {"reqline", "headers", "body"} /\ sent[c] < Len(Wire(hreq[c]))

\* the response of the response table for a well-formed request
Expected(r) == IF r.method = POST /\ r.path = GotoPath THEN "200" ELSE "404"

\* C14: with another connection stalled in the middle of its request, the
\* handler of a connection whose client has sent its complete request is never
\* kept waiting (its next step can be taken), and when it has finished it has
\* written the correct response.
C14_ServedDespiteStall ==
  \A c, d \in Clients :
    (c # d /\ Complete(c) /\ Stalled(d)) =>
      /\ hpc[c] # "done" => HandlerReady(c)
      /\ hpc[c] = "done" => resp[c] = <<Expected(hreq[c])>>

\* the part of C14 that is about scheduling alone: the handler of the complete
\* request can always take its next step, and has answered when it has finished
AnsweredDespiteStall ==
  \A c, d \in Clients :
    (c # d /\ Complete(c) /\ Stalled(d)) =>
      /\ hpc[c] # "done" => HandlerReady(c)
      /\ hpc[c] = "done" => Len(resp[c]) = 1

(***************************************************************************)
(* Claims about goto_address                                               *)
(***************************************************************************)

\* a string of hex digits, of either case, and nothing else
HexDigitString(s) == s # <<>> /\ Range(LowerSeq(s)) \subseteq Range(HexDigits)

\* C15: for a string h of hex digits, goto_address(h), goto_address("0x" + h)
\* and goto_address("0X" + h) all post a navigation, and for the same value.
C15_PrefixInsensitive ==
  (ret # NoRet /\ arg.str /\ HexDigitString(arg.chars)) =>
     /\ ret.post
     /\ goto_address(Text(<<"0", "x">> \o arg.chars)) = ret
     /\ goto_address(Text(<<"0", "X">> \o arg.chars)) = ret

\* C15 witness: the call with "0XF" has posted the value of "F".
C15_Witness ==
  /\ arg = Text(<<"0", "X", "F">>)
  /\ ret = goto_address(Text(<<"F">>))
  /\ ret.post /\ ret.v = 15

\* text with no reading as a hexadecimal number: a value that is not a str, a
\* string with a character that is no hex digit, sign, prefix letter or space,
\* or a string without any hex digit
Unparsable(a) ==
  \/ ~a.str
  \/ \E i \in 1..Len(a.chars) :
       Lower(a.chars[i]) \notin Range(HexDigits) \cup Whitespace \cup {"x", "-", "+"}
  \/ \A i \in 1..Len(a.chars) : Lower(a.chars[i]) \notin Range(HexDigits)

\* C16: no exception leaves goto_address; a call that posts nothing has logged
\* an error; an address with no hexadecimal reading posts nothing.
C16_NeverRaises ==
  ret # NoRet =>
     /\ ~ret.raised
     /\ ret.post => ret.log = "none"
     /\ ~ret.post => (ret.log \in {"invalid", "error"} /\ navq = <<>> /\ navdone = {})
     /\ Unparsable(arg) => ~ret.post

\* C16 witness: the call with a value that is not a string has returned, having
\* logged the error of the last except clause.
C16_Witness == ~arg.str /\ ret # NoRet /\ ret.log = "error" /\ ~ret.raised

(***************************************************************************)
(* Claims about shutdown                                                   *)
(***************************************************************************)

\* the event loop of thread t is running its tasks
Serving(t) == tpc[t] \in {"run", "batch"}

\* C17: a connection that was accepted and whose client has completed its
\* request is on an event loop that still runs its tasks, so that its handler
\* runs to completion: a stop does not take the loop away from it.
C17_InFlightServed ==
  \A c \in hist.inflight :
    conn[c].st \in {"dataready", "scheduled"} => Serving(conn[c].lsn)

\* The thread's stop_event is set and the thread still runs its loop, with
\* nothing left that could end it: wait_for_stop is neither suspended in
\* stop_event.wait() nor in wait_closed(), no callback is queued, loop.stop()
\* is not pending, and no connection of its server is left to finish.
Stranded(t) ==
  /\ evSet[t]
  /\ closeWaiting[t] = None
  /\ Blocked(t)
  /\ \A c \in Conns : conn[c].lsn # t

\* A stranded thread stays stranded: no step of the program or of its
\* environment gives its loop anything to run.
StrandedForGood == [][\A t \in Threads : Stranded(t) => Stranded(t)']_vars

\* C18: once stop_server() has set the thread's stop_event and the connections
\* of its server have finished, the thread is on its way out: it is never left
\* running a loop that nothing will stop.
C18_SignalledThreadEnds == \A t \in Threads : ~Stranded(t)

\* The live background threads started on handle h.
LiveThreads(h) == {t \in Threads : tOwner[t] = h /\ IsAlive(t)}

\* C19: a handle whose thread reference is None has no live background
\* thread, and no handle has more than one live thread at a time.
C19_OneThreadPerHandle ==
  \A h \in Handles :
    /\ hthread[h] = None => LiveThreads(h) = {}
    /\ Cardinality(LiveThreads(h)) <= 1

\* C20: the shutdown sequence runs without raising: neither wait_for_stop
\* nor the finally block of run_event_loop ends with an exception.
C20_ShutdownNeverRaises == hist.raised = {}

====
